---- MODULE Spec2Model ----
(***************************************************************************)
(* Model of the two command-line entry points of stripe-connect-invoices:  *)
(*   summary : the aggregation script (src/unnamed/part_000)               *)
(*   tools   : bin/stripe-connect-tools.js                                 *)
(* Times are epoch seconds on the ledger side and epoch milliseconds on    *)
(* the JavaScript Date side, as in the code.                               *)
(***************************************************************************)
EXTENDS Integers, Sequences, FiniteSets, TLC

VARIABLES entry, env, pc, responses, exitCode, thrown, ledgerRequests,
          request, consumed, totals, taxesAndFees, payouts, charges,
          transactions, errlog, warnings, stdout

vars == <<entry, env, pc, responses, exitCode, thrown, ledgerRequests,
          request, consumed, totals, taxesAndFees, payouts, charges,
          transactions, errlog, warnings, stdout>>

aggVars == <<consumed, totals, taxesAndFees, payouts, charges,
             transactions, errlog, warnings>>

(***************************************************************************)
(* Bounds of the model.                                                    *)
(***************************************************************************)
MaxFees == 1      \* fee_details line items of one charge
MonthSecs == 1    \* length of a calendar month, in seconds
NumMonths == 2    \* month choices offered by the period prompt

(***************************************************************************)
(* Environment and prompt answers.                                         *)
(***************************************************************************)
\* What the STRIPE_TOKEN_* variables hold: account name -> kind of secret.
Environments ==
    { <<>>,
      [acme |-> "plain"],
      [acme |-> "op"] }

getStripeClients(e) == DOMAIN e

getStripeTokens(e) == e

\* {start, end} of month k as Date values (milliseconds): the first instant
\* of the month and the first instant of the following month.
MonthPeriod(k) ==
    [start |-> k * MonthSecs * 1000, end |-> (k + 1) * MonthSecs * 1000]

getMonthChoices == { MonthPeriod(k) : k \in 0..(NumMonths - 1) }

Actions == {"createAndSaveReceipts", "downloadInvoices", "savePayoutReceipts"}

\* The prompt layer stops at the first interrupted question and returns the
\* answers given so far; an unanswered question leaves no key.
SummaryResponses(accounts) ==
    {<<>>}
    \cup { [account |-> a] : a \in accounts }
    \cup { [account |-> a, period |-> p] : a \in accounts, p \in getMonthChoices }

ToolsResponses(accounts) ==
    SummaryResponses(accounts)
    \cup { [account |-> a, period |-> p, action |-> c] :
              a \in accounts, p \in getMonthChoices, c \in Actions }

Has(r, k) == k \in DOMAIN r

(***************************************************************************)
(* Errors and the exit handlers.                                           *)
(***************************************************************************)
NoError == "none"
TypeErrorMsg == "TypeError: Cannot read properties of undefined"
StripeErrorMsg == "StripeError: ledger listing failed"
OpErrorMsg == "op: could not resolve secret reference"
ActionErrorMsg == "Error: action failed"
ForceClosedMsg == "User force closed the prompt with 0 null"

\* error.message.startsWith("User force closed the prompt with")
StartsWithForceClosed(msg) == msg \in {ForceClosedMsg}

CatchExitCodeAlwaysZero(msg) == IF StartsWithForceClosed(msg) THEN 0 ELSE 0

CatchExitCode(msg) == IF StartsWithForceClosed(msg) THEN 0 ELSE 1

(***************************************************************************)
(* The ledger: what balanceTransactions.list may yield.                    *)
(***************************************************************************)
Statuses == {"pending", "available", "failed"}
Types == {"charge", "payout", "stripe_fee", "adjustment"}
FeeTags == {"stripe_fee", "application_fee", "tax", "withheld_tax"}

\* Amount of a fee-detail line item, by tag.
FeeAmount(tag) ==
    CASE tag = "stripe_fee" -> 30
      [] tag = "application_fee" -> 20
      [] tag = "tax" -> 5
      [] OTHER -> 7

FeeDetail(tag) ==
    [type |-> tag, amount |-> FeeAmount(tag), currency |-> "usd",
     description |-> tag]

SeqsUpTo(S, n) == UNION { [1..m -> S] : m \in 0..n }

FeeLists == SeqsUpTo({ FeeDetail(t) : t \in FeeTags }, MaxFees)

RECURSIVE SumAmounts(_)
SumAmounts(s) == IF s = <<>> THEN 0 ELSE Head(s).amount + SumAmounts(Tail(s))

\* Amount of a ledger transaction, by type, from the platform's perspective:
\* payouts and fees are negative.
TxAmount(type) ==
    CASE type = "charge" -> 1000
      [] type = "payout" -> -5000
      [] type = "stripe_fee" -> -200
      [] OTHER -> 300

\* A ledger transaction.  The ledger's own identities are kept: fee is the
\* sum of the fee_details, net is amount - fee.
Tx(id, status, type, fds, created) ==
    [id |-> id, status |-> status, type |-> type,
     amount |-> TxAmount(type),
     fee |-> SumAmounts(fds),
     net |-> TxAmount(type) - SumAmounts(fds),
     currency |-> "usd",
     created |-> created,
     available_on |-> created + 1,
     source |-> [id |-> 100 + id, available_on |-> created + 3,
                 metadata |-> "metadata",
                 payment_method_details |-> "card",
                 billing_details |-> "billing"],
     fee_details |-> fds]

\* The created filter of the list request: {gte, lte}, both inclusive.
Listed(req, created) == created >= req.gte /\ created <= req.lte

\* What a transaction can look like.  Charges carry any list of fee details;
\* the other types carry at most one processor fee.
ShortFeeLists == SeqsUpTo({FeeDetail("stripe_fee")}, 1)

TxShapes ==
    { <<s, "charge", fds>> : s \in {"available"}, fds \in FeeLists }
    \cup { <<s, t, fds>> : s \in Statuses, t \in Types, fds \in ShortFeeLists }

\* The listing is ordered by creation time, one transaction per second at
\* most: the next transaction yielded was created after the previous one.
Times == 0..(NumMonths * MonthSecs)

NextCreated(req, seen) ==
    { c \in Times :
        Listed(req, c) /\ (seen # <<>> => c > seen[Len(seen)].created) }

NextTransactions(req, seen) ==
    { Tx(Len(seen) + 1, sh[1], sh[2], sh[3], c) :
        sh \in TxShapes, c \in NextCreated(req, seen) }

(***************************************************************************)
(* The aggregation loop of the summary entry point.                        *)
(***************************************************************************)
\* new Date(seconds * 1000), as its millisecond value
DateOf(seconds) == seconds * 1000

InitTotals ==
    [pending_transactions |-> 0,
     payouts_gross |-> 0, payouts_net |-> 0, payouts_fees |-> 0,
     stripe_fees |-> 0,
     charge_gross |-> 0, charge_net |-> 0, charge_fees |-> 0,
     charge_stripe_fees |-> 0, charge_application_fees |-> 0,
     charge_tax_fees |-> 0]

InitTaxesAndFees == [tax |-> <<>>, stripe_fee |-> <<>>, application_fee |-> <<>>]

knownTransactionTypesWithAdjustment ==
    {"charge", "payout", "stripe_fee", "adjustment"}

knownTransactionTypes == {"charge", "payout", "stripe_fee"}

PendingTotalsAssigned(tot) ==
    [tot EXCEPT !.pending_transactions = 1]

PendingTotals(tot) ==
    [tot EXCEPT !.pending_transactions = @ + 1]

StripeFeeTotals(tot, tx) ==
    [tot EXCEPT !.stripe_fees = @ + tx.amount * (-1)]

PayoutTotalsNotNegated(tot, tx) ==
    [tot EXCEPT !.payouts_gross = @ + tx.amount,
                !.payouts_net = @ + tx.net,
                !.payouts_fees = @ + tx.fee]

PayoutTotals(tot, tx) ==
    [tot EXCEPT !.payouts_gross = @ + tx.amount * (-1),
                !.payouts_net = @ + tx.net * (-1),
                !.payouts_fees = @ + tx.fee]

PayoutRecordOwnAvailableOn(tx) ==
    [transaction_id |-> tx.id,
     id |-> tx.source.id,
     amount |-> tx.amount,
     fee |-> tx.fee,
     currency |-> tx.currency,
     status |-> tx.status,
     created |-> DateOf(tx.created),
     available_on |-> DateOf(tx.available_on),
     arrival_date |-> DateOf(tx.available_on)]

PayoutRecord(tx) ==
    [transaction_id |-> tx.id,
     id |-> tx.source.id,
     amount |-> tx.amount,
     fee |-> tx.fee,
     currency |-> tx.currency,
     status |-> tx.status,
     created |-> DateOf(tx.created),
     available_on |-> DateOf(tx.available_on),
     arrival_date |-> DateOf(tx.source.available_on)]

FeeTotals(tot, fee) ==
    IF fee.type = "stripe_fee"
    THEN [tot EXCEPT !.charge_stripe_fees = @ + fee.amount]
    ELSE IF fee.type = "application_fee"
         THEN [tot EXCEPT !.charge_application_fees = @ + fee.amount]
         ELSE [tot EXCEPT !.charge_tax_fees = @ + fee.amount]

FeeLineItem(tx, fee) ==
    [transaction_id |-> tx.id,
     charge_id |-> tx.source.id,
     amount |-> fee.amount,
     currency |-> fee.currency,
     description |-> fee.description,
     created |-> DateOf(tx.created),
     available_on |-> DateOf(tx.available_on)]

\* transaction.fee_details.forEach(...): taxesAndFees[fee.type] is undefined
\* for a tag that is no key of taxesAndFees, and .push on it throws after
\* the total of that item has been raised.
RECURSIVE FeeDetailsLoop(_, _, _, _)
FeeDetailsLoop(tx, fds, tot, taf) ==
    IF fds = <<>>
    THEN [totals |-> tot, taxesAndFees |-> taf, threw |-> FALSE]
    ELSE LET fee == Head(fds)
             tot2 == FeeTotals(tot, fee)
         IN IF fee.type \in DOMAIN taf
            THEN FeeDetailsLoop(tx, Tail(fds), tot2,
                     [taf EXCEPT ![fee.type] = Append(@, FeeLineItem(tx, fee))])
            ELSE [totals |-> tot2, taxesAndFees |-> taf, threw |-> TRUE]

ChargeRecord(tx) ==
    [transaction_id |-> tx.id,
     id |-> tx.source.id,
     amount |-> tx.amount,
     fee |-> tx.fee,
     currency |-> tx.currency,
     created |-> DateOf(tx.created),
     available_on |-> DateOf(tx.available_on),
     metadata |-> tx.source.metadata,
     payment_method |-> tx.source.payment_method_details,
     billing_details |-> tx.source.billing_details]

ChargeTotals(tot, tx) ==
    [tot EXCEPT !.charge_fees = @ + tx.fee,
                !.charge_gross = @ + tx.amount,
                !.charge_net = @ + tx.net]

AuditPrepend(list, tx) == <<tx>> \o list

AuditAppend(list, tx) == Append(list, tx)

\* The guards at the head of the loop body, in their order.
Disposition(tx) ==
    IF tx.status = "pending" THEN "pending"
    ELSE IF tx.status # "available" THEN "skipped_status"
    ELSE IF tx.type \notin knownTransactionTypes THEN "skipped_type"
    ELSE "classified"

\* The rest of the loop body, for a transaction that passed the guards.
Classify(tx, tot, taf) ==
    LET t1 == IF tx.type = "stripe_fee" THEN StripeFeeTotals(tot, tx) ELSE tot
        t2 == IF tx.type = "payout" THEN PayoutTotals(t1, tx) ELSE t1
        fl == IF tx.type = "charge"
              THEN FeeDetailsLoop(tx, tx.fee_details, t2, taf)
              ELSE [totals |-> t2, taxesAndFees |-> taf, threw |-> FALSE]
    IN [totals |-> IF tx.type = "charge" /\ ~fl.threw
                   THEN ChargeTotals(fl.totals, tx) ELSE fl.totals,
        taxesAndFees |-> fl.taxesAndFees,
        payout |-> tx.type = "payout",
        charge |-> tx.type = "charge" /\ ~fl.threw,
        threw |-> fl.threw]

(***************************************************************************)
(* State machine.                                                          *)
(***************************************************************************)
Init ==
    /\ entry \in {"summary", "tools"}
    /\ env \in Environments
    /\ pc = "start"
    /\ responses = <<>>
    /\ exitCode = <<>>
    /\ thrown = NoError
    /\ ledgerRequests = 0
    /\ request = <<>>
    /\ consumed = <<>>
    /\ totals = InitTotals
    /\ taxesAndFees = InitTaxesAndFees
    /\ payouts = <<>>
    /\ charges = <<>>
    /\ transactions = <<>>
    /\ errlog = <<>>
    /\ warnings = <<>>
    /\ stdout = <<>>

Exit(code) == pc' = "exited" /\ exitCode' = <<code>>

Reject(msg) == pc' = "rejected" /\ thrown' = msg

\* summary: credentials check
SummaryStart ==
    /\ entry = "summary" /\ pc = "start"
    /\ IF Cardinality(getStripeClients(env)) < 1
       THEN Exit(1)
       ELSE pc' = "prompt" /\ UNCHANGED exitCode
    /\ UNCHANGED <<entry, env, responses, thrown, ledgerRequests, request,
                   aggVars, stdout>>

\* summary: the prompts return and the listing is requested.  There is no
\* interruption check: a missing account leaves stripeClient undefined and
\* a missing period makes responses.period.start throw.
SummaryPrompt(resp) ==
    /\ entry = "summary" /\ pc = "prompt"
    /\ resp \in SummaryResponses(getStripeClients(env))
    /\ responses' = resp
    /\ IF ~Has(resp, "account") \/ ~Has(resp, "period")
       THEN /\ Reject(TypeErrorMsg)
            /\ UNCHANGED <<ledgerRequests, request>>
       ELSE /\ request' = [gte |-> resp.period.start \div 1000,
                           lte |-> resp.period.end \div 1000]
            /\ ledgerRequests' = ledgerRequests + 1
            /\ pc' = "loop"
            /\ UNCHANGED thrown
    /\ UNCHANGED <<entry, env, exitCode, aggVars, stdout>>

\* summary: one iteration of the for-await loop
LoopBody(tx) ==
    /\ entry = "summary" /\ pc = "loop"
    /\ tx \in NextTransactions(request, consumed)
    /\ consumed' = Append(consumed, tx)
    /\ LET d == Disposition(tx)
           r == Classify(tx, totals, taxesAndFees)
       IN CASE d = "pending" ->
                 /\ totals' = PendingTotals(totals)
                 /\ UNCHANGED <<taxesAndFees, payouts, charges, transactions,
                                errlog, warnings, pc, thrown>>
            [] d = "skipped_status" ->
                 /\ errlog' = Append(errlog, tx)
                 /\ UNCHANGED <<totals, taxesAndFees, payouts, charges,
                                transactions, warnings, pc, thrown>>
            [] d = "skipped_type" ->
                 /\ warnings' = Append(warnings, [type |-> tx.type, id |-> tx.id])
                 /\ UNCHANGED <<totals, taxesAndFees, payouts, charges,
                                transactions, errlog, pc, thrown>>
            [] OTHER ->
                 /\ totals' = r.totals
                 /\ taxesAndFees' = r.taxesAndFees
                 /\ payouts' = IF r.payout
                               THEN Append(payouts, PayoutRecord(tx)) ELSE payouts
                 /\ charges' = IF r.charge
                               THEN Append(charges, ChargeRecord(tx)) ELSE charges
                 /\ IF r.threw
                    THEN Reject(TypeErrorMsg) /\ UNCHANGED transactions
                    ELSE /\ transactions' = AuditAppend(transactions, tx)
                         /\ UNCHANGED <<pc, thrown>>
                 /\ UNCHANGED <<errlog, warnings>>
    /\ UNCHANGED <<entry, env, responses, exitCode, ledgerRequests, request,
                   stdout>>

\* summary: the listing fails (transport or authentication error)
ListFails ==
    /\ entry = "summary" /\ pc = "loop"
    /\ Reject(StripeErrorMsg)
    /\ UNCHANGED <<entry, env, responses, exitCode, ledgerRequests, request,
                   aggVars, stdout>>

\* summary: the listing ends; the report is printed and main resolves
ListExhausted ==
    /\ entry = "summary" /\ pc = "loop"
    /\ stdout' = <<taxesAndFees, totals>>
    /\ pc' = "resolved"
    /\ UNCHANGED <<entry, env, responses, exitCode, thrown, ledgerRequests,
                   request, aggVars>>

SummaryOnResolved ==
    /\ entry = "summary" /\ pc = "resolved"
    /\ Exit(0)
    /\ UNCHANGED <<entry, env, responses, thrown, ledgerRequests, request,
                   aggVars, stdout>>

SummaryOnRejected ==
    /\ entry = "summary" /\ pc = "rejected"
    /\ Exit(CatchExitCode(thrown))
    /\ UNCHANGED <<entry, env, responses, thrown, ledgerRequests, request,
                   aggVars, stdout>>

\* tools: credentials check
ToolsStart ==
    /\ entry = "tools" /\ pc = "start"
    /\ IF Cardinality(DOMAIN getStripeTokens(env)) < 1
       THEN Exit(1)
       ELSE pc' = "prompt" /\ UNCHANGED exitCode
    /\ UNCHANGED <<entry, env, responses, thrown, ledgerRequests, request,
                   aggVars, stdout>>

\* tools: the prompts return; interruption check, token lookup, secret
\* resolution, and the chosen action is started.
ToolsPrompt(resp, opOk) ==
    /\ entry = "tools" /\ pc = "prompt"
    /\ resp \in ToolsResponses(DOMAIN getStripeTokens(env))
    /\ opOk \in BOOLEAN
    /\ responses' = resp
    /\ IF ~Has(resp, "account") \/ ~Has(resp, "period") \/ ~Has(resp, "action")
       THEN Exit(0) /\ UNCHANGED thrown
       ELSE IF ~Has(getStripeTokens(env), resp.account)
            THEN Exit(0) /\ UNCHANGED thrown
            ELSE IF getStripeTokens(env)[resp.account] = "op" /\ ~opOk
                 THEN Reject(OpErrorMsg) /\ UNCHANGED exitCode
                 ELSE IF resp.action \in Actions
                      THEN pc' = "action" /\ UNCHANGED <<thrown, exitCode>>
                      ELSE Reject(ActionErrorMsg) /\ UNCHANGED exitCode
    /\ UNCHANGED <<entry, env, ledgerRequests, request, aggVars, stdout>>

\* tools: the action queries the ledger and completes
ActionSucceeds ==
    /\ entry = "tools" /\ pc = "action"
    /\ ledgerRequests' = ledgerRequests + 1
    /\ pc' = "resolved"
    /\ UNCHANGED <<entry, env, responses, exitCode, thrown, request, aggVars,
                   stdout>>

\* tools: the action fails
ActionFails ==
    /\ entry = "tools" /\ pc = "action"
    /\ ledgerRequests' \in {ledgerRequests, ledgerRequests + 1}
    /\ Reject(ActionErrorMsg)
    /\ UNCHANGED <<entry, env, responses, exitCode, request, aggVars, stdout>>

ToolsOnResolved ==
    /\ entry = "tools" /\ pc = "resolved"
    /\ Exit(0)
    /\ UNCHANGED <<entry, env, responses, thrown, ledgerRequests, request,
                   aggVars, stdout>>

ToolsOnRejected ==
    /\ entry = "tools" /\ pc = "rejected"
    /\ Exit(CatchExitCode(thrown))
    /\ UNCHANGED <<entry, env, responses, thrown, ledgerRequests, request,
                   aggVars, stdout>>

SummaryPrompts ==
    \E resp \in SummaryResponses(getStripeClients(env)) : SummaryPrompt(resp)

LoopBodies ==
    /\ pc = "loop"
    /\ \E tx \in NextTransactions(request, consumed) : LoopBody(tx)

ToolsPrompts ==
    \E resp \in ToolsResponses(DOMAIN getStripeTokens(env)), opOk \in BOOLEAN :
        ToolsPrompt(resp, opOk)

Next ==
    \/ SummaryStart
    \/ SummaryPrompts
    \/ LoopBodies
    \/ ListFails
    \/ ListExhausted
    \/ SummaryOnResolved
    \/ SummaryOnRejected
    \/ ToolsStart
    \/ ToolsPrompts
    \/ ActionSucceeds
    \/ ActionFails
    \/ ToolsOnResolved
    \/ ToolsOnRejected

Spec == Init /\ [][Next]_vars

(***************************************************************************)
(* Vocabulary of the properties, stated on the transactions received.      *)
(***************************************************************************)
Last(s) == s[Len(s)]

RECURSIVE SumOfAmounts(_)
SumOfAmounts(s) ==
    IF s = <<>> THEN 0 ELSE Head(s).amount + SumOfAmounts(Tail(s))

IsPendingTx(t) == t.status = "pending"
IsUnknownStatusTx(t) == t.status \notin {"pending", "available"}
IsUnknownTypeTx(t) ==
    t.status = "available" /\ t.type \notin {"charge", "payout", "stripe_fee"}
IsAvailableCharge(t) == t.status = "available" /\ t.type = "charge"
IsAvailablePayout(t) == t.status = "available" /\ t.type = "payout"
IsAvailableStripeFee(t) == t.status = "available" /\ t.type = "stripe_fee"
IsUnknownFeeTag(f) == f.type \notin {"stripe_fee", "application_fee", "tax"}

HasUnknownFeeTag(t) ==
    \E j \in DOMAIN t.fee_details : IsUnknownFeeTag(t.fee_details[j])

\* A step of the loop that received one more transaction.
Received == Len(consumed') = Len(consumed) + 1

\* The loop threw while handling the last transaction received.
LoopAborted == thrown = TypeErrorMsg /\ consumed # <<>>

\* The transactions whose loop iteration ran to its end.
Completed ==
    IF LoopAborted THEN SubSeq(consumed, 1, Len(consumed) - 1) ELSE consumed

ReportPrinted == stdout # <<>>

(***************************************************************************)
(* C1.  A fee detail of an available charge whose tag is neither           *)
(* stripe_fee nor application_fee nor tax is treated as tax: its amount is *)
(* in the tax total, a FeeLineItem for it is in the tax collection, the    *)
(* Charge record is emitted and the run goes on.                           *)
(***************************************************************************)
C1_UnknownTagFiledAsTax ==
    \A i \in DOMAIN consumed :
        LET tx == consumed[i] IN
        (IsAvailableCharge(tx) /\ HasUnknownFeeTag(tx)) =>
            /\ \A j \in DOMAIN tx.fee_details :
                  IsUnknownFeeTag(tx.fee_details[j]) =>
                      \E k \in DOMAIN taxesAndFees.tax :
                          /\ taxesAndFees.tax[k].transaction_id = tx.id
                          /\ taxesAndFees.tax[k].amount = tx.fee_details[j].amount
            /\ \E k \in DOMAIN charges : charges[k].transaction_id = tx.id
            /\ \E k \in DOMAIN transactions : transactions[k].id = tx.id
            /\ thrown = NoError

(***************************************************************************)
(* C2.  Original statement: once the transactions have been processed and  *)
(* the report is out, each has exactly one disposition, the pending count  *)
(* is the number of pending ones, and the audit list is exactly the        *)
(* available charges and payouts, in the order received.                   *)
(***************************************************************************)
C2_AuditIsChargesAndPayouts ==
    ReportPrinted =>
        /\ totals.pending_transactions = Len(SelectSeq(consumed, IsPendingTx))
        /\ Len(errlog) = Len(SelectSeq(consumed, IsUnknownStatusTx))
        /\ Len(warnings) = Len(SelectSeq(consumed, IsUnknownTypeTx))
        /\ transactions =
              SelectSeq(consumed,
                        LAMBDA t : IsAvailableCharge(t) \/ IsAvailablePayout(t))
        /\ totals.pending_transactions + Len(errlog) + Len(warnings)
              + Len(transactions) = Len(consumed)

(***************************************************************************)
(* C2, amended.  At every point of the run, each transaction whose         *)
(* iteration ran to its end has exactly one disposition: the pending count *)
(* is the number of pending ones, the two logs hold the ones skipped for   *)
(* their status and for their type, and the audit list is exactly the      *)
(* available charges, payouts and stripe_fee transactions, each once and   *)
(* in the order received.                                                  *)
(***************************************************************************)
C2_AuditIsClassified ==
    /\ totals.pending_transactions = Len(SelectSeq(Completed, IsPendingTx))
    /\ errlog = SelectSeq(Completed, IsUnknownStatusTx)
    /\ Len(warnings) = Len(SelectSeq(Completed, IsUnknownTypeTx))
    /\ \A k \in DOMAIN warnings :
          warnings[k].id = SelectSeq(Completed, IsUnknownTypeTx)[k].id
    /\ transactions =
          SelectSeq(Completed,
                    LAMBDA t : \/ IsAvailableCharge(t)
                               \/ IsAvailablePayout(t)
                               \/ IsAvailableStripeFee(t))
    /\ totals.pending_transactions + Len(errlog) + Len(warnings)
          + Len(transactions) = Len(Completed)

C2_Witness ==
    /\ ReportPrinted
    /\ Len(consumed) = 2
    /\ IsAvailableStripeFee(consumed[1])
    /\ IsAvailablePayout(consumed[2])
    /\ Len(transactions) = 2

(***************************************************************************)
(* C3.  The transactions received for a period {start, end} were created   *)
(* in the half-open interval [start, end): none was created at the end     *)
(* instant, which is the start of the following month's period.            *)
(***************************************************************************)
C3_HalfOpenPeriod ==
    Has(responses, "period") =>
        \A i \in DOMAIN consumed :
            /\ DateOf(consumed[i].created) >= responses.period.start
            /\ DateOf(consumed[i].created) < responses.period.end

(***************************************************************************)
(* C4.  In both entry points an interrupted prompt (no value for account,  *)
(* period or action) ends the process with exit status 0 and no ledger     *)
(* request; exit status 1 occurs only without credentials or after an      *)
(* unhandled failure.                                                      *)
(***************************************************************************)
Asked == IF entry = "summary" THEN {"account", "period"}
         ELSE {"account", "period", "action"}

Interrupted ==
    /\ pc \notin {"start", "prompt"}
    /\ getStripeClients(env) # {}
    /\ \E k \in Asked : ~Has(responses, k)

C4_InterruptExitsZero ==
    /\ Interrupted => ledgerRequests = 0
    /\ (Interrupted /\ pc = "exited") => exitCode = <<0>>
    /\ exitCode = <<1>> => (getStripeClients(env) = {} \/ thrown # NoError)

(***************************************************************************)
(* C5.  Original statement: once the transactions have been processed and  *)
(* the report is out, the amounts of the records of each bucket sum to the *)
(* bucket's total: Payout records to payouts_gross, Charge records to      *)
(* charge_gross, and the tax / stripe_fee / application_fee line items to  *)
(* charge_tax_fees / charge_stripe_fees / charge_application_fees.         *)
(***************************************************************************)
C5_BucketSumsEqualTotals ==
    ReportPrinted =>
        /\ SumOfAmounts(payouts) = totals.payouts_gross
        /\ SumOfAmounts(charges) = totals.charge_gross
        /\ SumOfAmounts(taxesAndFees.tax) = totals.charge_tax_fees
        /\ SumOfAmounts(taxesAndFees.stripe_fee) = totals.charge_stripe_fees
        /\ SumOfAmounts(taxesAndFees.application_fee)
              = totals.charge_application_fees

\* The amount of the fee detail on which the loop threw, 0 when it did not.
RECURSIVE FirstUnknownFeeAmount(_)
FirstUnknownFeeAmount(fds) ==
    IF fds = <<>> THEN 0
    ELSE IF IsUnknownFeeTag(Head(fds)) THEN Head(fds).amount
         ELSE FirstUnknownFeeAmount(Tail(fds))

AbortedFeeAmount ==
    IF LoopAborted THEN FirstUnknownFeeAmount(Last(consumed).fee_details) ELSE 0

(***************************************************************************)
(* C5, amended.  At every point of the run the Payout record amounts sum   *)
(* to the negation of                                                      *)
(* payouts_gross; the Charge record amounts sum to charge_gross; the       *)
(* stripe_fee and application_fee line items sum to their totals; the tax  *)
(* line items sum to charge_tax_fees less the amount of the fee detail     *)
(* with an unrecognised tag on which the run was aborted, if any.          *)
(***************************************************************************)
C5_BucketSumsWithPayoutSign ==
    /\ SumOfAmounts(payouts) = 0 - totals.payouts_gross
    /\ SumOfAmounts(charges) = totals.charge_gross
    /\ SumOfAmounts(taxesAndFees.tax) + AbortedFeeAmount = totals.charge_tax_fees
    /\ SumOfAmounts(taxesAndFees.stripe_fee) = totals.charge_stripe_fees
    /\ SumOfAmounts(taxesAndFees.application_fee) = totals.charge_application_fees

C5_Witness ==
    /\ ReportPrinted
    /\ Len(payouts) = 1
    /\ Len(charges) = 1
    /\ totals.payouts_gross > 0
    /\ totals.charge_tax_fees + totals.charge_stripe_fees
          + totals.charge_application_fees > 0

(***************************************************************************)
(* C6.  Every available charge with amount A, net N, fee F and any         *)
(* fee_details raises charge_gross by A, charge_net by N, charge_fees by   *)
(* F, emits exactly one Charge record, raises the three fee sub-totals     *)
(* together by the sum of the fee_details amounts, and changes no payout   *)
(* total, not stripe_fees and not the pending count.                       *)
(***************************************************************************)
C6_ChargeStep ==
    [][ (Received /\ IsAvailableCharge(Last(consumed'))) =>
          LET tx == Last(consumed') IN
          /\ totals'.charge_gross = totals.charge_gross + tx.amount
          /\ totals'.charge_net = totals.charge_net + tx.net
          /\ totals'.charge_fees = totals.charge_fees + tx.fee
          /\ Len(charges') = Len(charges) + 1
          /\ Last(charges').transaction_id = tx.id
          /\ (totals'.charge_stripe_fees + totals'.charge_application_fees
                + totals'.charge_tax_fees)
             = (totals.charge_stripe_fees + totals.charge_application_fees
                + totals.charge_tax_fees) + SumOfAmounts(tx.fee_details)
          /\ totals'.payouts_gross = totals.payouts_gross
          /\ totals'.payouts_net = totals.payouts_net
          /\ totals'.payouts_fees = totals.payouts_fees
          /\ totals'.stripe_fees = totals.stripe_fees
          /\ totals'.pending_transactions = totals.pending_transactions
      ]_vars

(***************************************************************************)
(* C7.  Every available payout with amount A, net N and fee F raises       *)
(* payouts_gross by -A, payouts_net by -N and payouts_fees by F, changes   *)
(* no charge total, not stripe_fees and not the pending count, and emits   *)
(* exactly one Payout record whose amount is A and whose arrival_date is   *)
(* the source's available_on, not the transaction's own.                   *)
(***************************************************************************)
C7_PayoutStep ==
    [][ (Received /\ IsAvailablePayout(Last(consumed'))) =>
          LET tx == Last(consumed') IN
          /\ totals' = [totals EXCEPT !.payouts_gross = @ - tx.amount,
                                      !.payouts_net = @ - tx.net,
                                      !.payouts_fees = @ + tx.fee]
          /\ Len(payouts') = Len(payouts) + 1
          /\ SubSeq(payouts', 1, Len(payouts)) = payouts
          /\ Last(payouts').transaction_id = tx.id
          /\ Last(payouts').amount = tx.amount
          /\ Last(payouts').arrival_date = tx.source.available_on * 1000
          /\ Last(payouts').available_on = tx.available_on * 1000
          /\ UNCHANGED <<charges, taxesAndFees>>
      ]_vars

C7_Witness ==
    /\ Len(payouts) = 1
    /\ payouts[1].amount = -5000
    /\ payouts[1].fee = 30
    /\ payouts[1].arrival_date # payouts[1].available_on
    /\ totals.payouts_gross = 5000
    /\ totals.payouts_net = 5030
    /\ totals.payouts_fees = 30

(***************************************************************************)
(* C8.  A transaction whose status is neither pending nor available, or    *)
(* which is available with a type outside {charge, payout, stripe_fee},    *)
(* changes no total, adds no Payout, Charge or FeeLineItem record, is not  *)
(* put on the audit list and does not abort the run: the loop goes on to   *)
(* the transactions that follow.                                           *)
(***************************************************************************)
C8_SkippedStep ==
    [][ (Received /\ (\/ IsUnknownStatusTx(Last(consumed'))
                      \/ IsUnknownTypeTx(Last(consumed')))) =>
          /\ UNCHANGED <<totals, payouts, charges, taxesAndFees, transactions>>
          /\ pc' = "loop"
          /\ thrown' = NoError
          /\ UNCHANGED <<exitCode, stdout>>
      ]_vars

C8_Witness ==
    /\ ReportPrinted
    /\ exitCode = <<0>>
    /\ Len(consumed) = 2
    /\ IsUnknownTypeTx(consumed[1])
    /\ IsAvailableCharge(consumed[2])
    /\ Len(transactions) = 1
    /\ transactions[1] = consumed[2]
    /\ totals.charge_gross = 1000

(***************************************************************************)
(* C9.  A pending transaction, whatever its type, amount and fee_details,  *)
(* raises the pending count by exactly one and changes nothing else; a run *)
(* over one pending transaction alone reports pending count 1, every other *)
(* total 0 and an empty audit list.                                        *)
(***************************************************************************)
C9_PendingStep ==
    /\ [][ (Received /\ IsPendingTx(Last(consumed'))) =>
             /\ totals' = [totals EXCEPT !.pending_transactions = @ + 1]
             /\ UNCHANGED <<payouts, charges, taxesAndFees, transactions,
                            errlog, warnings, pc, thrown, stdout>>
         ]_vars
    /\ [] ( (ReportPrinted /\ Len(consumed) = 1 /\ IsPendingTx(consumed[1])) =>
              /\ totals = [InitTotals EXCEPT !.pending_transactions = 1]
              /\ stdout = <<InitTaxesAndFees, totals>>
              /\ transactions = <<>>
              /\ payouts = <<>>
              /\ charges = <<>> )

C9_Witness ==
    /\ ReportPrinted
    /\ Len(consumed) = 2
    /\ IsPendingTx(consumed[1]) /\ consumed[1].type = "charge"
    /\ IsPendingTx(consumed[2]) /\ consumed[2].fee_details # <<>>
    /\ totals.pending_transactions = 2

(***************************************************************************)
(* C10.  When the ledger listing fails, before or after any number of      *)
(* transactions, the report is never printed and the process exits with    *)
(* status 1; the report is printed only when the listing was consumed to   *)
(* its end without failure, and the process then exits with status 0.      *)
(***************************************************************************)
C10_ReportOnlyOnSuccess ==
    /\ thrown = StripeErrorMsg =>
          /\ ~ReportPrinted
          /\ pc \in {"rejected", "exited"}
          /\ pc = "exited" => exitCode = <<1>>
    /\ ReportPrinted =>
          /\ thrown = NoError
          /\ pc \in {"resolved", "exited"}
          /\ pc = "exited" => exitCode = <<0>>
          /\ stdout = <<taxesAndFees, totals>>
    /\ (entry = "summary" /\ exitCode = <<0>>) => ReportPrinted

C10_Witness ==
    /\ thrown = StripeErrorMsg
    /\ pc = "exited"
    /\ exitCode = <<1>>
    /\ Len(consumed) = 1
    /\ Len(charges) = 1

====
